---- MODULE Spec2Model ----
(***************************************************************************)
(* Model of eci_to_ecef.py: the conversion of one ECI position vector to   *)
(* ECEF at a UTC timestamp.                                                *)
(*                                                                         *)
(* Python floats are modelled as decimal fixed-point numbers with twelve   *)
(* fractional digits, held as a sign and a magnitude of base-10^4 limbs    *)
(* (TLC's own integers are 32 bits wide and the Julian Date times the      *)
(* sidereal rate needs more).  Every product and quotient is truncated     *)
(* toward zero at the twelfth digit, where IEEE-754 rounds to nearest at   *)
(* the 53rd bit: the model follows the code's order of operations and      *)
(* stands for its real-number value to about 1e-10.                        *)
(***************************************************************************)
EXTENDS Integers, Sequences, FiniteSets, TLC

(***************************************************************************)
(* Fixed-point numbers: the stand-in for Python's float.                   *)
(***************************************************************************)
Base == 10000
FracLimbs == 3

RECURSIVE Strip(_)
Strip(m) ==
    IF m = <<>> THEN m
    ELSE IF m[Len(m)] = 0 THEN Strip(SubSeq(m, 1, Len(m) - 1)) ELSE m

Limb(m, i) == IF i <= Len(m) THEN m[i] ELSE 0

RECURSIVE AddC(_, _, _)
AddC(a, b, c) ==
    IF a = <<>> /\ b = <<>> THEN (IF c = 0 THEN <<>> ELSE <<c>>)
    ELSE LET x == Limb(a, 1) + Limb(b, 1) + c
         IN  <<x % Base>> \o AddC(IF a = <<>> THEN a ELSE Tail(a),
                                  IF b = <<>> THEN b ELSE Tail(b),
                                  x \div Base)

AddMag(a, b) == AddC(a, b, 0)

\* a - b for magnitudes with a >= b
RECURSIVE SubC(_, _, _)
SubC(a, b, c) ==
    IF a = <<>> THEN <<>>
    ELSE LET x == a[1] - Limb(b, 1) - c
         IN  <<x % Base>> \o SubC(Tail(a),
                                  IF b = <<>> THEN b ELSE Tail(b),
                                  IF x < 0 THEN 1 ELSE 0)

SubMag(a, b) == Strip(SubC(a, b, 0))

\* -1, 0, 1 as a < b, a = b, a > b (magnitudes without leading zero limbs)
RECURSIVE CmpFrom(_, _, _)
CmpFrom(a, b, i) ==
    IF i = 0 THEN 0
    ELSE IF a[i] < b[i] THEN -1
    ELSE IF a[i] > b[i] THEN 1
    ELSE CmpFrom(a, b, i - 1)

CmpMag(a, b) ==
    IF Len(a) < Len(b) THEN -1
    ELSE IF Len(a) > Len(b) THEN 1
    ELSE CmpFrom(a, b, Len(a))

\* magnitude times a natural number k < 200000
RECURSIVE MulC(_, _, _)
MulC(a, k, c) ==
    IF a = <<>> THEN (IF c = 0 THEN <<>> ELSE <<c % Base>> \o MulC(a, k, c \div Base))
    ELSE LET x == a[1] * k + c
         IN  <<x % Base>> \o MulC(Tail(a), k, x \div Base)

MulMagInt(a, k) == Strip(MulC(a, k, 0))

RECURSIVE MulMag(_, _)
MulMag(a, b) ==
    IF b = <<>> \/ a = <<>> THEN <<>>
    ELSE LET rest == MulMag(a, Tail(b))
         IN  AddMag(MulMagInt(a, b[1]), IF rest = <<>> THEN rest ELSE <<0>> \o rest)

\* magnitude divided by a natural number 0 < k < 200000: quotient and remainder
RECURSIVE DivRem(_, _)
DivRem(a, k) ==
    IF a = <<>> THEN [q |-> <<>>, r |-> 0]
    ELSE LET hi  == DivRem(Tail(a), k)
             cur == hi.r * Base + a[1]
         IN  [q |-> <<cur \div k>> \o hi.q, r |-> cur % k]

DivMagInt(a, k) == Strip(DivRem(a, k).q)

RECURSIVE NatLimbs(_)
NatLimbs(n) == IF n = 0 THEN <<>> ELSE <<n % Base>> \o NatLimbs(n \div Base)

Zeros(n) == [i \in 1..n |-> 0]
ShiftUp(m, n) == IF m = <<>> THEN m ELSE Zeros(n) \o m
ShiftDown(m, n) == IF Len(m) <= n THEN <<>> ELSE SubSeq(m, n + 1, Len(m))

\* a signed number; zero is never negative
Num(neg, mag) == [neg |-> neg /\ Strip(mag) # <<>>, mag |-> Strip(mag)]

Zero == Num(FALSE, <<>>)
\* the float of an integer
Float(i) == Num(i < 0, ShiftUp(NatLimbs(IF i < 0 THEN -i ELSE i), FracLimbs))
\* the float of the decimal literal i.f1f2f3, each f a group of four digits
Dec(i, f1, f2, f3) == Num(FALSE, <<f3, f2, f1>> \o NatLimbs(i))

Neg(a) == Num(~a.neg, a.mag)
Abs(a) == Num(FALSE, a.mag)

Add(a, b) ==
    IF a.neg = b.neg THEN Num(a.neg, AddMag(a.mag, b.mag))
    ELSE IF CmpMag(a.mag, b.mag) >= 0 THEN Num(a.neg, SubMag(a.mag, b.mag))
    ELSE Num(b.neg, SubMag(b.mag, a.mag))

Sub(a, b) == Add(a, Neg(b))

Mul(a, b) == Num(a.neg # b.neg, ShiftDown(MulMag(a.mag, b.mag), FracLimbs))

\* a float times or divided by a small integer constant (0 < k < 200000)
MulInt(a, k) == Num(a.neg, MulMagInt(a.mag, k))
DivInt(a, k) == Num(a.neg, DivMagInt(a.mag, k))

Less(a, b) == Sub(a, b).neg
Leq(a, b) == ~Less(b, a)

\* int(x): truncation toward zero, as a TLC integer (|x| < 2^31)
RECURSIVE MagInt(_)
MagInt(m) == IF m = <<>> THEN 0 ELSE m[1] + Base * MagInt(Tail(m))

Trunc(a) == (IF a.neg THEN -1 ELSE 1) * MagInt(ShiftDown(a.mag, FracLimbs))

(***************************************************************************)
(* The math module (the C library behind it): radians, cos, sin.           *)
(***************************************************************************)
\* math.pi = 3.141592653589793
Pi == Dec(3, 1415, 9265, 3589)

radians(x) == DivInt(Mul(x, Pi), 180)

\* the argument brought into [-pi, pi] by whole turns
RECURSIVE Reduce(_)
Reduce(t) ==
    IF Less(Pi, t) THEN Reduce(Sub(t, MulInt(Pi, 2)))
    ELSE IF Less(t, Neg(Pi)) THEN Reduce(Add(t, MulInt(Pi, 2)))
    ELSE t

\* term - term*r2/((n+1)(n+2)) + ..., until the terms vanish
RECURSIVE Taylor(_, _, _)
Taylor(term, r2, n) ==
    IF term = Zero THEN Zero
    ELSE Add(term, Taylor(Neg(DivInt(Mul(term, r2), (n + 1) * (n + 2))), r2, n + 2))

cos(t) == LET r == Reduce(t) IN Taylor(Float(1), Mul(r, r), 0)
sin(t) == LET r == Reduce(t) IN Taylor(r, Mul(r, r), 1)

\* float % k for an integer k > 0: C's fmod, then Python's sign fix-up
fmod(a, k) ==
    Num(a.neg, [i \in 1..FracLimbs |-> Limb(a.mag, i)]
               \o NatLimbs(DivRem(ShiftDown(a.mag, FracLimbs), k).r))

\* a remainder that keeps the sign of the dividend, as C's % and fmod do
PyMod_truncating(a, k) == fmod(a, k)

PyMod(a, k) ==
    LET r == fmod(a, k)
    IN  IF r # Zero /\ r.neg THEN Add(r, Float(k)) ELSE r

(***************************************************************************)
(* ymdhms_to_julian_date                                                   *)
(***************************************************************************)
\* January alone moved to the previous year
adj_year_january_only(year, month) == IF month < 2 THEN year - 1 ELSE year

adj_year(year, month) == IF month <= 2 THEN year - 1 ELSE year
adj_month(month) == IF month <= 2 THEN month + 12 ELSE month

A_of(year) == year \div 100
B_of(year) == 2 - A_of(year) + A_of(year) \div 4

jd_int(year, month, day) ==
    Sub(Float(Trunc(Mul(Dec(365, 2500, 0, 0), Float(year + 4716)))
              + Trunc(Mul(Dec(30, 6001, 0, 0), Float(month + 1)))
              + day + B_of(year)),
        Dec(1524, 5000, 0, 0))

frac_day(hour, minute, second) ==
    DivInt(Add(Add(Float(hour), DivInt(Float(minute), 60)), DivInt(second, 3600)), 24)

\* the month forced into 1..12 before the formula
ymdhms_month_clamped(year, month, day, hour, minute, second) ==
    LET m == IF month > 12 THEN 12 ELSE IF month < 1 THEN 1 ELSE month
    IN  Add(jd_int(adj_year(year, m), adj_month(m), day), frac_day(hour, minute, second))

ymdhms_to_julian_date(year, month, day, hour, minute, second) ==
    Add(jd_int(adj_year(year, month), adj_month(month), day),
        frac_day(hour, minute, second))

(***************************************************************************)
(* gst_from_julian_date                                                    *)
(***************************************************************************)
JD2000 == 2451545

T_of(julian_date) == DivInt(Sub(julian_date, Float(JD2000)), 36525)

GST_sec(julian_date) ==
    LET T == T_of(julian_date)
    IN  MulInt(Add(Add(Dec(280, 4606, 1837, 0),
                       Mul(Dec(360, 9856, 4736, 6290), Sub(julian_date, Float(JD2000)))),
                   Mul(Mul(T, T),
                       Sub(Dec(0, 3, 8793, 3000), DivInt(DivInt(T, 3871), 10000)))),
               3600)

\* the reduction taken over a turn of 360 instead of a day of 24
GST_hours_mod_360(julian_date) == PyMod(DivInt(GST_sec(julian_date), 3600), 360)

GST_hours(julian_date) == PyMod(DivInt(GST_sec(julian_date), 3600), 24)

gst_from_julian_date(julian_date) ==
    Sub(radians(MulInt(GST_hours(julian_date), 15)), Dec(1, 258, 1572, 0))

(***************************************************************************)
(* eci_to_ecef                                                             *)
(***************************************************************************)
\* z taken from the wrong input
eci_to_ecef_z_from_y(eci_x_km, eci_y_km, eci_z_km, gst_rad) ==
    [ecef_x_km |-> Add(Mul(cos(gst_rad), eci_x_km), Mul(sin(gst_rad), eci_y_km)),
     ecef_y_km |-> Add(Mul(Neg(sin(gst_rad)), eci_x_km), Mul(cos(gst_rad), eci_y_km)),
     ecef_z_km |-> eci_y_km]

\* the vector turned instead of the frame
eci_to_ecef_active(eci_x_km, eci_y_km, eci_z_km, gst_rad) ==
    [ecef_x_km |-> Add(Mul(cos(gst_rad), eci_x_km), Mul(Neg(sin(gst_rad)), eci_y_km)),
     ecef_y_km |-> Add(Mul(sin(gst_rad), eci_x_km), Mul(cos(gst_rad), eci_y_km)),
     ecef_z_km |-> eci_z_km]

\* the minus sign of the second row left out
eci_to_ecef_no_minus(eci_x_km, eci_y_km, eci_z_km, gst_rad) ==
    [ecef_x_km |-> Add(Mul(cos(gst_rad), eci_x_km), Mul(sin(gst_rad), eci_y_km)),
     ecef_y_km |-> Add(Mul(sin(gst_rad), eci_x_km), Mul(cos(gst_rad), eci_y_km)),
     ecef_z_km |-> eci_z_km]

eci_to_ecef(eci_x_km, eci_y_km, eci_z_km, gst_rad) ==
    [ecef_x_km |-> Add(Mul(cos(gst_rad), eci_x_km), Mul(sin(gst_rad), eci_y_km)),
     ecef_y_km |-> Add(Mul(Neg(sin(gst_rad)), eci_x_km), Mul(cos(gst_rad), eci_y_km)),
     ecef_z_km |-> eci_z_km]

(***************************************************************************)
(* Command-line text and printed text.  A piece of text is its lexical     *)
(* kind and the number it denotes: "int" is an integer literal, "real" a   *)
(* decimal literal with a fractional part, "junk" anything else.           *)
(***************************************************************************)
IntTok(i) == [kind |-> "int", val |-> Float(i)]
RealTok(v) == [kind |-> "real", val |-> v]
JunkTok == [kind |-> "junk", val |-> Zero]
UsageLine == [kind |-> "usage", val |-> Zero]

\* int(s) and float(s): whether the conversion succeeds, and its value
int_ok(s) == s.kind = "int"
int(s) == Trunc(s.val)
float_ok(s) == s.kind \in {"int", "real"}
float(s) == s.val
\* print(x) of a float writes its repr, which always reads back as a float
repr(x) == [kind |-> "real", val |-> x]

(***************************************************************************)
(* The inputs.                                                             *)
(***************************************************************************)
MaxMonth == 13
MaxArgc == 11

Years == {-4720, -1, 1990, 2000, 2024}
Months == 1..MaxMonth
\* day, hour, minute, second
DayTimes == {<<1, 0, 0, IntTok(0)>>,
             <<1, 12, 0, IntTok(0)>>,
             <<32, 23, 59, RealTok(Dec(59, 5000, 0, 0))>>}
Vectors == {<<IntTok(7000), IntTok(0), IntTok(0)>>,
            <<IntTok(1), IntTok(0), RealTok(Dec(0, 5000, 0, 0))>>,
            <<RealTok(Neg(Dec(3000, 5000, 0, 0))), RealTok(Dec(4000, 2500, 0, 0)),
              IntTok(-5000)>>}

ProgName == JunkTok
GoodArgv(y, m, dt, v) ==
    <<ProgName, IntTok(y), IntTok(m), IntTok(dt[1]), IntTok(dt[2]), IntTok(dt[3]), dt[4],
      v[1], v[2], v[3]>>

BaseArgv ==
    GoodArgv(2024, 1, <<1, 0, 0, IntTok(0)>>, <<IntTok(7000), IntTok(0), IntTok(0)>>)

GoodArgvs == {GoodArgv(y, m, dt, v) : y \in Years, m \in Months, dt \in DayTimes, v \in Vectors}
\* nine arguments, one of them not the literal its conversion wants
BadArgvs ==
    {[BaseArgv EXCEPT ![i + 1] = t] : i \in 1..9, t \in {JunkTok, RealTok(Dec(1, 5000, 0, 0))}}
\* any other number of arguments
WrongCountArgvs ==
    {[i \in 1..n |-> IF i <= 10 THEN a[i] ELSE IntTok(0)] :
        n \in (1..MaxArgc) \ {10}, a \in {BaseArgv, [i \in 1..10 |-> JunkTok]}}

(***************************************************************************)
(* main: one step per statement; pc is the line about to run.              *)
(***************************************************************************)
VARIABLES sys_argv, pc, locals, stdout, exit_status, uncaught, called

vars == <<sys_argv, pc, locals, stdout, exit_status, uncaught, called>>

Bound(name) == name \in DOMAIN locals
NoLocals == [n \in {} |-> Zero]

Init ==
    /\ sys_argv \in GoodArgvs \cup BadArgvs \cup WrongCountArgvs
    /\ pc = "L83"
    /\ locals = NoLocals
    /\ stdout = <<>>
    /\ exit_status = <<>>
    /\ uncaught = ""
    /\ called = <<>>

\* only too few arguments turned away
CheckArgc_too_few_only ==
    /\ pc = "L83"
    /\ pc' = IF Len(sys_argv) < 10 THEN "L84" ELSE "L88"
    /\ UNCHANGED <<sys_argv, locals, stdout, exit_status, uncaught, called>>

\* line 83: if len(sys.argv) != 10
CheckArgc ==
    /\ pc = "L83"
    /\ pc' = IF Len(sys_argv) # 10 THEN "L84" ELSE "L88"
    /\ UNCHANGED <<sys_argv, locals, stdout, exit_status, uncaught, called>>

\* line 84: print("Usage: ...")
PrintUsage ==
    /\ pc = "L84"
    /\ stdout' = Append(stdout, UsageLine)
    /\ pc' = "L85"
    /\ UNCHANGED <<sys_argv, locals, exit_status, uncaught, called>>

\* line 85: sys.exit(1)
SysExit ==
    /\ pc = "L85"
    /\ exit_status' = <<1>>
    /\ pc' = "terminated"
    /\ UNCHANGED <<sys_argv, locals, stdout, uncaught, called>>

\* an exception nothing catches: traceback on stderr, exit status 1
Raise(exc) ==
    /\ uncaught' = exc
    /\ exit_status' = <<1>>
    /\ pc' = "terminated"
    /\ UNCHANGED <<sys_argv, locals, stdout, called>>

IntArgs == <<"year", "month", "day", "hour", "minute">>
IntLines == <<"L88", "L89", "L90", "L91", "L92", "L93">>
FloatArgs == <<"second", "eci_x_km", "eci_y_km", "eci_z_km">>
FloatLines == <<"L93", "L94", "L95", "L96", "L99">>

\* lines 88-92: name = int(sys.argv[i])
ParseInt ==
    \E i \in 1..5 :
        /\ pc = IntLines[i]
        /\ IF int_ok(sys_argv[i + 1])
           THEN /\ locals' = locals @@ (IntArgs[i] :> int(sys_argv[i + 1]))
                /\ pc' = IntLines[i + 1]
                /\ UNCHANGED <<sys_argv, stdout, exit_status, uncaught, called>>
           ELSE Raise("ValueError")

\* a failed conversion caught and replaced by 0.0
ParseFloat_defaulting ==
    \E i \in 1..4 :
        /\ pc = FloatLines[i]
        /\ locals' = locals @@ (FloatArgs[i] :> IF float_ok(sys_argv[i + 6])
                                                 THEN float(sys_argv[i + 6]) ELSE Zero)
        /\ pc' = FloatLines[i + 1]
        /\ UNCHANGED <<sys_argv, stdout, exit_status, uncaught, called>>

\* lines 93-96: name = float(sys.argv[i])
ParseFloat ==
    \E i \in 1..4 :
        /\ pc = FloatLines[i]
        /\ IF float_ok(sys_argv[i + 6])
           THEN /\ locals' = locals @@ (FloatArgs[i] :> float(sys_argv[i + 6]))
                /\ pc' = FloatLines[i + 1]
                /\ UNCHANGED <<sys_argv, stdout, exit_status, uncaught, called>>
           ELSE Raise("ValueError")

Call(fn, args, ret) == [fn |-> fn, args |-> args, ret |-> ret]

JulianDateArgs ==
    <<locals.year, locals.month, locals.day, locals.hour, locals.minute, locals.second>>
JulianDateRet ==
    ymdhms_to_julian_date(locals.year, locals.month, locals.day,
                          locals.hour, locals.minute, locals.second)

\* line 99: jd = ymdhms_to_julian_date(year, month, day, hour, minute, second)
CallJulianDate ==
    /\ pc = "L99"
    /\ locals' = locals @@ ("jd" :> JulianDateRet)
    /\ called' = Append(called, Call("ymdhms_to_julian_date", JulianDateArgs, JulianDateRet))
    /\ pc' = "L102"
    /\ UNCHANGED <<sys_argv, stdout, exit_status, uncaught>>

\* line 102: gst_rad = gst_from_julian_date(jd)
CallGst ==
    /\ pc = "L102"
    /\ locals' = locals @@ ("gst_rad" :> gst_from_julian_date(locals.jd))
    /\ called' = Append(called, Call("gst_from_julian_date", <<locals.jd>>,
                                     gst_from_julian_date(locals.jd)))
    /\ pc' = "L105"
    /\ UNCHANGED <<sys_argv, stdout, exit_status, uncaught>>

EciToEcefArgs == <<locals.eci_x_km, locals.eci_y_km, locals.eci_z_km, locals.gst_rad>>
EciToEcefRet ==
    eci_to_ecef(locals.eci_x_km, locals.eci_y_km, locals.eci_z_km, locals.gst_rad)

\* line 105: ecef_x_km, ecef_y_km, ecef_z_km = eci_to_ecef(eci_x_km, eci_y_km, eci_z_km, gst_rad)
CallEciToEcef ==
    /\ pc = "L105"
    /\ locals' = locals @@ EciToEcefRet
    /\ called' = Append(called, Call("eci_to_ecef", EciToEcefArgs, EciToEcefRet))
    /\ pc' = "L108"
    /\ UNCHANGED <<sys_argv, stdout, exit_status, uncaught>>

\* y printed before x
PrintArgs_y_first == <<"ecef_y_km", "ecef_x_km", "ecef_z_km">>
PrintArgs == <<"ecef_x_km", "ecef_y_km", "ecef_z_km">>
PrintLines == <<"L108", "L109", "L110", "return">>

\* lines 108-110: print(name)
PrintCoord ==
    \E i \in 1..3 :
        /\ pc = PrintLines[i]
        /\ stdout' = Append(stdout, repr(locals[PrintArgs[i]]))
        /\ pc' = PrintLines[i + 1]
        /\ UNCHANGED <<sys_argv, locals, exit_status, uncaught, called>>

\* main returns and the script ends: exit status 0
Return ==
    /\ pc = "return"
    /\ exit_status' = <<0>>
    /\ pc' = "terminated"
    /\ UNCHANGED <<sys_argv, locals, stdout, uncaught, called>>

Next ==
    \/ CheckArgc
    \/ PrintUsage
    \/ SysExit
    \/ ParseInt
    \/ ParseFloat
    \/ CallJulianDate
    \/ CallGst
    \/ CallEciToEcef
    \/ PrintCoord
    \/ Return

Spec == Init /\ [][Next]_vars

(***************************************************************************)
(* The three functions called directly (the module imported, not run).     *)
(***************************************************************************)
MaxEighthTurns == 8
MaxQuarterDays == 40

\* k/8 of a turn, and three angles off the grid
Angles ==
    {DivInt(MulInt(Pi, k), 4) : k \in 0..MaxEighthTurns}
    \cup {Neg(DivInt(MulInt(Pi, k), 4)) : k \in 0..MaxEighthTurns}
    \cup {Float(1), Dec(3, 2835, 6409, 2060), Neg(Dec(1, 258, 1572, 0))}

RotVectors ==
    {<<Float(x), Float(y), Float(z)>> : x \in -1..1, y \in -1..1, z \in {0, 7}}
    \cup {<<Float(7000), Zero, Zero>>,
          <<Neg(Dec(3000, 5000, 0, 0)), Dec(4000, 2500, 0, 0), Float(-5000)>>}

\* quarter days around J2000.0, a century either side, and day zero
JulianDates ==
    {Add(Float(JD2000), DivInt(Float(q), 4)) : q \in 0..MaxQuarterDays}
    \cup {Sub(Float(JD2000), DivInt(Float(q), 4)) : q \in 0..MaxQuarterDays}
    \cup {Float(JD2000 - 36525), Float(JD2000 + 36525), Zero,
          Dec(2451544, 2230, 6989, 1000), Dec(2460310, 5000, 0, 0)}

InitCall(fn, args) ==
    /\ sys_argv = <<>>
    /\ pc = fn
    /\ locals = args
    /\ stdout = <<>>
    /\ exit_status = <<>>
    /\ uncaught = ""
    /\ called = <<>>

RotInit ==
    \E v \in RotVectors, t \in Angles :
        InitCall("eci_to_ecef",
                 [eci_x_km |-> v[1], eci_y_km |-> v[2], eci_z_km |-> v[3], gst_rad |-> t])

\* lines 59-78: one call of eci_to_ecef
FnEciToEcef ==
    /\ pc = "eci_to_ecef"
    /\ locals' = locals @@ EciToEcefRet
    /\ called' = Append(called, Call("eci_to_ecef", EciToEcefArgs, EciToEcefRet))
    /\ pc' = "returned"
    /\ UNCHANGED <<sys_argv, stdout, exit_status, uncaught>>

RotNext == FnEciToEcef
RotSpec == RotInit /\ [][RotNext]_vars

GstInit == \E j \in JulianDates : InitCall("gst_from_julian_date", [julian_date |-> j])

\* lines 44-56: one call of gst_from_julian_date
FnGst ==
    /\ pc = "gst_from_julian_date"
    /\ locals' = locals @@ ("GST_rad" :> gst_from_julian_date(locals.julian_date))
    /\ called' = Append(called, Call("gst_from_julian_date", <<locals.julian_date>>,
                                     gst_from_julian_date(locals.julian_date)))
    /\ pc' = "returned"
    /\ UNCHANGED <<sys_argv, stdout, exit_status, uncaught>>

GstNext == FnGst
GstSpec == GstInit /\ [][GstNext]_vars

(***************************************************************************)
(* Properties.                                                             *)
(***************************************************************************)
Near(a, b, tol) == Leq(Abs(Sub(a, b)), tol)

Calls(fn) == {i \in 1..Len(called) : called[i].fn = fn}
StageNames == <<"ymdhms_to_julian_date", "gst_from_julian_date", "eci_to_ecef">>
IsPrefix(a, b) == Len(a) <= Len(b) /\ a = SubSeq(b, 1, Len(a))
CoordLines == {i \in 1..Len(stdout) : stdout[i].kind # "usage"}

\* the nine conversions of lines 88-96, by argument position
Converts(i) == IF i <= 5 THEN int_ok(sys_argv[i + 1]) ELSE float_ok(sys_argv[i + 1])
AllConvert == Len(sys_argv) = 10 /\ \A i \in 1..9 : Converts(i)
FirstBad == CHOOSE i \in 1..9 : ~Converts(i) /\ \A j \in 1..(i - 1) : Converts(j)
ArgNames == IntArgs \o FloatArgs

\* C1: with any number of arguments other than nine, main prints the usage
\* message and exits with status 1; no stage runs, nothing is parsed and no
\* coordinate line is printed.
C1_UsageError ==
    Len(sys_argv) # 10 =>
        /\ called = <<>>
        /\ locals = NoLocals
        /\ CoordLines = {}
        /\ uncaught = ""
        /\ pc \in {"L83", "L84", "L85", "terminated"}
        /\ pc \in {"L85", "terminated"} => stdout = <<UsageLine>>
        /\ pc = "terminated" => exit_status = <<1>>
        /\ pc # "terminated" => ENABLED Next

C1_Witness ==
    /\ Len(sys_argv) = 11
    /\ pc = "terminated"
    /\ stdout = <<UsageLine>>
    /\ exit_status = <<1>>

\* C2: every call of eci_to_ecef returns its third argument unchanged as
\* ecef_z_km, and a successful run prints as its third line the value parsed
\* from the ninth argument.
C2_ZInvariance ==
    /\ \A i \in Calls("eci_to_ecef") : called[i].ret.ecef_z_km = called[i].args[3]
    /\ (pc = "terminated" /\ exit_status = <<0>>) =>
           /\ Len(stdout) = 3
           /\ stdout[3].val = float(sys_argv[10])

C2_Witness ==
    /\ pc = "terminated"
    /\ exit_status = <<0>>
    /\ float(sys_argv[10]) = Float(-5000)
    /\ stdout[3].val = Float(-5000)
    /\ stdout[1].val # float(sys_argv[8])

\* the formula of the claim, on integers: the whole days by integer
\* arithmetic, the time of day as seconds over 86400
TruncDiv(n, d) == IF n >= 0 THEN n \div d ELSE -((-n) \div d)
MeeusJD(year, month, day, hour, minute, second) ==
    LET Y == IF month <= 2 THEN year - 1 ELSE year
        M == IF month <= 2 THEN month + 12 ELSE month
        A == Y \div 100
        B == 2 - A + A \div 4
        whole == TruncDiv(1461 * (Y + 4716), 4) + TruncDiv(306001 * (M + 1), 10000)
                 + day + B
    IN  Add(Sub(Float(whole), Dec(1524, 5000, 0, 0)),
            DivInt(Add(Float(hour * 3600 + minute * 60), second), 86400))

JDTol == Dec(0, 0, 0, 10)
IsDate(a, y, m, d, h, mi) ==
    a[1] = y /\ a[2] = m /\ a[3] = d /\ a[4] = h /\ a[5] = mi /\ a[6] = Zero

\* C3: ymdhms_to_julian_date returns trunc(365.25*(Y+4716)) +
\* trunc(30.6001*(M+1)) + day + B - 1524.5 + (hour + minute/60 + second/3600)/24
\* with (Y, M) = (year-1, month+12) when month <= 2; 2024-01-01 00:00:00 gives
\* 2460310.5 and 2000-01-01 12:00:00 gives 2451545.0 exactly.
C3_JulianDate ==
    \A i \in Calls("ymdhms_to_julian_date") :
        LET a == called[i].args
        IN  /\ Near(called[i].ret, MeeusJD(a[1], a[2], a[3], a[4], a[5], a[6]), JDTol)
            /\ IsDate(a, 2024, 1, 1, 0, 0) => called[i].ret = Dec(2460310, 5000, 0, 0)
            /\ IsDate(a, 2000, 1, 1, 12, 0) => called[i].ret = Float(2451545)

C3_Witness ==
    \E i \in Calls("ymdhms_to_julian_date") :
        /\ IsDate(called[i].args, 2024, 1, 1, 0, 0)
        /\ called[i].ret = Dec(2460310, 5000, 0, 0)

\* C8: with nine arguments of which one does not convert, the run ends in
\* the uncaught ValueError of the first such argument, having bound only the
\* arguments before it; no stage runs and nothing is printed.
C8_ParseError ==
    (Len(sys_argv) = 10 /\ ~AllConvert) =>
        /\ called = <<>>
        /\ stdout = <<>>
        /\ pc \in {"L83", "terminated"} \cup {IntLines[i] : i \in 1..5}
                  \cup {FloatLines[i] : i \in 1..4}
        /\ DOMAIN locals \subseteq {ArgNames[j] : j \in 1..(FirstBad - 1)}
        /\ pc = "terminated" =>
               /\ uncaught = "ValueError"
               /\ exit_status = <<1>>
               /\ DOMAIN locals = {ArgNames[j] : j \in 1..(FirstBad - 1)}
        /\ pc # "terminated" => uncaught = "" /\ ENABLED Next

C8_Witness ==
    /\ Len(sys_argv) = 10
    /\ ~Converts(9)
    /\ \A j \in 1..8 : Converts(j)
    /\ pc = "terminated"
    /\ uncaught = "ValueError"
    /\ Cardinality(DOMAIN locals) = 8

\* C9: a run with nine convertible arguments calls the Julian-Date
\* conversion, then the sidereal-time calculation on its result, then the
\* rotation of the parsed vector by that angle, each once and in that order,
\* then prints ecef_x_km, ecef_y_km, ecef_z_km in that order and ends with
\* exit status 0.
C9_Pipeline ==
    AllConvert =>
        /\ IsPrefix([i \in 1..Len(called) |-> called[i].fn], StageNames)
        /\ Len(called) >= 1 =>
               called[1].args = <<int(sys_argv[2]), int(sys_argv[3]), int(sys_argv[4]),
                                  int(sys_argv[5]), int(sys_argv[6]), float(sys_argv[7])>>
        /\ Len(called) >= 2 => called[2].args = <<called[1].ret>>
        /\ Len(called) >= 3 =>
               called[3].args = <<float(sys_argv[8]), float(sys_argv[9]),
                                  float(sys_argv[10]), called[2].ret>>
        /\ stdout # <<>> =>
               /\ Len(called) = 3
               /\ IsPrefix(stdout, <<repr(called[3].ret.ecef_x_km),
                                     repr(called[3].ret.ecef_y_km),
                                     repr(called[3].ret.ecef_z_km)>>)
        /\ uncaught = ""
        /\ pc = "terminated" => Len(stdout) = 3 /\ exit_status = <<0>>
        /\ pc # "terminated" =>
               /\ exit_status = <<>>
               /\ \/ pc \in {"L99", "L102", "L105"}
                  \/ ENABLED (CheckArgc \/ ParseInt \/ ParseFloat \/ PrintCoord \/ Return)

C9_Witness ==
    /\ AllConvert
    /\ pc = "terminated"
    /\ exit_status = <<0>>
    /\ Len(called) = 3
    /\ Len(stdout) = 3
    /\ stdout[1] # stdout[2]

\* C10: ymdhms_to_julian_date validates nothing: month 13 and day 32 go
\* through the same formula and the run goes on, and month 13 of a year
\* gives the Julian Date of month 1 of the next year.
C10_NoValidation ==
    \A i \in Calls("ymdhms_to_julian_date") :
        LET a == called[i].args
        IN  /\ uncaught = ""
            /\ Bound("jd") /\ locals.jd = called[i].ret
            /\ called[i].ret = Add(jd_int(adj_year(a[1], a[2]), adj_month(a[2]), a[3]),
                                   frac_day(a[4], a[5], a[6]))
            /\ a[2] = 13 =>
                   /\ called[i].ret = ymdhms_to_julian_date(a[1] + 1, 1, a[3], a[4], a[5], a[6])
                   /\ Near(called[i].ret,
                           MeeusJD(a[1] + 1, 1, a[3], a[4], a[5], a[6]), JDTol)

C10_Witness ==
    \E i \in Calls("ymdhms_to_julian_date") :
        /\ called[i].args[2] = 13
        /\ called[i].args[3] = 32
        /\ called[i].ret = ymdhms_to_julian_date(called[i].args[1] + 1, 1, 32, 23, 59,
                                                 Dec(59, 5000, 0, 0))
        /\ pc = "L102"

Pre(j) == DivInt(GST_sec(j), 3600)
Bias == Dec(1, 258, 1572, 0)
HoursTol == Dec(0, 0, 500, 0)
AngleTol == Dec(0, 0, 0, 1000)

\* C4 as stated: at Julian Date 2451545.0, T = 0, GST_sec = 280.46061837 * 3600,
\* GST_hours = 280.46061837 mod 24, about 16.46957, and the angle returned is
\* radians(GST_hours * 15) - 1.02581572.
C4_EpochAsStated ==
    \A i \in Calls("gst_from_julian_date") :
        LET j == called[i].args[1]
        IN  j = Float(JD2000) =>
                /\ T_of(j) = Zero
                /\ GST_sec(j) = MulInt(Dec(280, 4606, 1837, 0), 3600)
                /\ GST_hours(j) = PyMod(Dec(280, 4606, 1837, 0), 24)
                /\ Near(GST_hours(j), Dec(16, 4695, 7000, 0), HoursTol)
                /\ called[i].ret = Sub(radians(MulInt(GST_hours(j), 15)), Bias)

\* C4 amended: at Julian Date 2451545.0, T = 0, GST_sec = 280.46061837 * 3600,
\* GST_hours = 280.46061837 mod 24 = 16.46061837, about 16.46062, and the angle
\* returned is radians(GST_hours * 15) - 1.02581572, about 3.283564092.
C4_Epoch ==
    \A i \in Calls("gst_from_julian_date") :
        LET j == called[i].args[1]
        IN  j = Float(JD2000) =>
                /\ T_of(j) = Zero
                /\ GST_sec(j) = MulInt(Dec(280, 4606, 1837, 0), 3600)
                /\ GST_hours(j) = Dec(16, 4606, 1837, 0)
                /\ Near(GST_hours(j), Dec(16, 4606, 2000, 0), HoursTol)
                /\ called[i].ret = Sub(radians(MulInt(Dec(16, 4606, 1837, 0), 15)), Bias)
                /\ Near(called[i].ret, Dec(3, 2835, 6409, 2000), AngleTol)

C4_Witness ==
    \E i \in Calls("gst_from_julian_date") :
        /\ called[i].args[1] = Float(JD2000)
        /\ GST_hours(called[i].args[1]) = Dec(16, 4606, 1837, 0)
        /\ pc = "returned"

\* C5: for every Julian Date, before the epoch as after it, GST_hours is in
\* [0, 24) and the angle returned is in [-1.02581572, 2*pi - 1.02581572).
C5_HoursRange ==
    \A i \in Calls("gst_from_julian_date") :
        LET j == called[i].args[1]
        IN  /\ Leq(Zero, GST_hours(j))
            /\ Less(GST_hours(j), Float(24))
            /\ Leq(Neg(Bias), called[i].ret)
            /\ Less(called[i].ret, Sub(MulInt(Pi, 2), Bias))

C5_Witness ==
    \E i \in Calls("gst_from_julian_date") :
        LET j == called[i].args[1]
        IN  /\ Less(j, Float(JD2000))
            /\ Less(Pre(j), Zero)
            /\ fmod(Pre(j), 24) # Zero
            /\ Leq(Zero, GST_hours(j))
            /\ Less(Float(23), GST_hours(j))

RotTol == Dec(0, 0, 0, 1000)
IsVec(a, x, y, z) == a[1] = Float(x) /\ a[2] = Float(y) /\ a[3] = Float(z)
NearVec(r, x, y, z) ==
    /\ Near(r.ecef_x_km, Float(x), RotTol)
    /\ Near(r.ecef_y_km, Float(y), RotTol)
    /\ r.ecef_z_km = Float(z)
QuarterTurn == DivInt(MulInt(Pi, 2), 4)

\* C6: eci_to_ecef returns x' = cos(t)*x + sin(t)*y and y' = -sin(t)*x + cos(t)*y,
\* the frame turned by +t about Z: at t = pi/2, (1,0,0) goes to (0,-1,0) and
\* (0,1,0) to (1,0,0); at t = 0 the vector comes back unchanged.
C6_PassiveRotation ==
    \A i \in Calls("eci_to_ecef") :
        LET a == called[i].args
            r == called[i].ret
            t == a[4]
        IN  /\ r.ecef_x_km = Add(Mul(cos(t), a[1]), Mul(sin(t), a[2]))
            /\ r.ecef_y_km = Add(Mul(Neg(sin(t)), a[1]), Mul(cos(t), a[2]))
            /\ (t = QuarterTurn /\ IsVec(a, 1, 0, 0)) => NearVec(r, 0, -1, 0)
            /\ (t = QuarterTurn /\ IsVec(a, 0, 1, 0)) => NearVec(r, 1, 0, 0)
            /\ t = Zero => r = [ecef_x_km |-> a[1], ecef_y_km |-> a[2], ecef_z_km |-> a[3]]

C6_Witness ==
    \E i \in Calls("eci_to_ecef") :
        /\ called[i].args[4] = QuarterTurn
        /\ IsVec(called[i].args, 1, 0, 0)
        /\ NearVec(called[i].ret, 0, -1, 0)

Sq(a) == Mul(a, a)
NormTol(n) == Add(Mul(n, Dec(0, 0, 0, 1000)), Dec(0, 0, 0, 1000))
ExactTrig(t) == cos(t) \in {Float(-1), Zero, Float(1)} /\ sin(t) \in {Float(-1), Zero, Float(1)}

\* C7: eci_to_ecef keeps x^2 + y^2: exactly when cos and sin of the angle
\* are exact (0 and +-1), and to within one part in 10^9 otherwise.
C7_NormPreserved ==
    \A i \in Calls("eci_to_ecef") :
        LET a == called[i].args
            r == called[i].ret
            before == Add(Sq(a[1]), Sq(a[2]))
            after  == Add(Sq(r.ecef_x_km), Sq(r.ecef_y_km))
        IN  /\ Near(after, before, NormTol(before))
            /\ ExactTrig(a[4]) => after = before

C7_Witness ==
    \E i \in Calls("eci_to_ecef") :
        LET a == called[i].args
            r == called[i].ret
        IN  /\ a[4] = Float(1)
            /\ a[1] = Neg(Dec(3000, 5000, 0, 0))
            /\ r.ecef_x_km # a[1]
            /\ Near(Add(Sq(r.ecef_x_km), Sq(r.ecef_y_km)), Add(Sq(a[1]), Sq(a[2])),
                    NormTol(Add(Sq(a[1]), Sq(a[2]))))
====
